---- MODULE Spec2Model ----
(***************************************************************************)
(* Pipeshub order management: the rate-limited FIFO queue (RateLimiter,    *)
(* index-map version), the trading-window clock and session flag           *)
(* (TimeManager) and the wiring between them (OrderManagement).            *)
(*                                                                         *)
(* Every handler (onData, the queue-processor tick, the session poll,      *)
(* clearQueue, initialize) runs to completion on the Node.js event loop,   *)
(* so each is one atomic action; Date.now() is read as the single value    *)
(* `now` for the whole handler.                                            *)
(***************************************************************************)
EXTENDS Integers, Sequences, FiniteSets, TLC

VARIABLES
    now,               \* Date.now(), epoch milliseconds
    ordersPerSecond,   \* config.rateLimit.ordersPerSecond
    isInitialized,     \* OrderManagement.isInitialized
    isLoggedIn,        \* TimeManager.isLoggedIn
    orderQueue,        \* RateLimiter.orderQueue
    orderIndexMap,     \* RateLimiter.orderIndexMap : orderId -> 0-based index
    ordersThisSecond,  \* RateLimiter.ordersThisSecond
    currentSecond,     \* RateLimiter.currentSecond
    lastResult,        \* the last handler and what it returned / reported
    lastCallbacks,     \* the onSendCallback invocations of the last handler, in order
    handedThisSecond,  \* onSendCallback invocations since the clock last changed second
    drained,           \* ordinals of the queue entries handed to the callback, in order
    nextOrderId,       \* upstream: the next unused order id for a New order
    nextSeq,           \* ordinal given to the next queue entry
    roundTrip,         \* round-trip runs: the orders expected at the exchange and those seen
    burst,             \* burst runs: the New orders of the burst and what became of them
    tradingWindow      \* window runs: config.tradingHours, start and end as TimeOfDay

vars == <<now, ordersPerSecond, isInitialized, isLoggedIn, orderQueue,
          orderIndexMap, ordersThisSecond, currentSecond, lastResult,
          lastCallbacks, handedThisSecond, drained, nextOrderId, nextSeq,
          roundTrip, burst, tradingWindow>>

\* what the round-trip, burst and window runs have beside the running system
scenario == <<roundTrip, burst, tradingWindow>>

(***************************************************************************)
(* Program constants                                                       *)
(***************************************************************************)
MILLISECONDS_PER_SECOND == 1000
SECONDS_PER_MINUTE == 60
MINUTES_PER_HOUR == 60
HOURS_PER_DAY == 24
MILLISECONDS_PER_MINUTE == MILLISECONDS_PER_SECOND * SECONDS_PER_MINUTE
MILLISECONDS_PER_HOUR == MILLISECONDS_PER_MINUTE * MINUTES_PER_HOUR
QUEUE_NOT_FOUND_INDEX == -1

\* enum RequestType
Unknown == 0
New == 1
Modify == 2
Cancel == 3

(***************************************************************************)
(* Bounds of the model                                                     *)
(***************************************************************************)
MaxRate == 2                \* ordersPerSecond ranges over 1..MaxRate
MaxOrderId == 2             \* order ids range over 1..MaxOrderId
MaxEnqueued == 3            \* queue entries created in a run
MaxMinute == 2              \* the clock stays within minutes 0..MaxMinute
MaxSecondsIntoMinute == 1   \* second-by-second steps explored in each minute

(***************************************************************************)
(* Environment: the configured window, the host, the first instant         *)
(***************************************************************************)
\* config.tradingHours of the modelled run: open during minute 00:01 only
TradingHours == [start |-> [hour |-> 0, minute |-> 1],
                 end |-> [hour |-> 0, minute |-> 1],
                 timezone |-> "UTC"]
\* Date.prototype.getTimezoneOffset() of the host, in minutes
HostTimezoneOffset == 0
\* Date.now() when the system is constructed: 1970-01-02T00:00:00Z
InitialNow == 86400000

(***************************************************************************)
(* TimeManager                                                             *)
(***************************************************************************)
\* TIMEZONE_OFFSETS, in minutes
TimezoneOffsetMinutes(timezone) ==
    CASE timezone = "Asia/Kolkata" -> 330
      [] timezone = "Asia/Calcutta" -> 330
      [] timezone = "America/New_York" -> -300
      [] timezone = "Europe/London" -> 0
      [] timezone = "UTC" -> 0
      [] OTHER -> 0

\* the epoch value of the Date that convertToTradingTimezone returns on a
\* host whose Date.getTimezoneOffset() is hostOffset minutes
convertToTradingTimezoneOnHost(date, timezone, hostOffset) ==
    IF timezone = "UTC"
    THEN date
    ELSE date + hostOffset * MILLISECONDS_PER_MINUTE
              + TimezoneOffsetMinutes(timezone) * MILLISECONDS_PER_MINUTE

\* Date.getHours() / getMinutes() on that host: fields of the host-local
\* wall clock
getHoursOnHost(date, hostOffset) ==
    ((date - hostOffset * MILLISECONDS_PER_MINUTE)
        \div MILLISECONDS_PER_HOUR) % HOURS_PER_DAY
getMinutesOnHost(date, hostOffset) ==
    ((date - hostOffset * MILLISECONDS_PER_MINUTE)
        \div MILLISECONDS_PER_MINUTE) % MINUTES_PER_HOUR

getCurrentTimeInTradingTzOnHost(t, timezone, hostOffset) ==
    [hour |-> getHoursOnHost(
                  convertToTradingTimezoneOnHost(t, timezone, hostOffset),
                  hostOffset),
     minute |-> getMinutesOnHost(
                    convertToTradingTimezoneOnHost(t, timezone, hostOffset),
                    hostOffset)]

\* the same on the host of the modelled run
convertToTradingTimezone(date, timezone) ==
    convertToTradingTimezoneOnHost(date, timezone, HostTimezoneOffset)

getHours(date) == getHoursOnHost(date, HostTimezoneOffset)
getMinutes(date) == getMinutesOnHost(date, HostTimezoneOffset)

getCurrentTimeInTradingTz(t, timezone) ==
    [hour |-> getHours(convertToTradingTimezone(t, timezone)),
     minute |-> getMinutes(convertToTradingTimezone(t, timezone))]

convertToMinutes(time) == time.hour * 60 + time.minute

\* an isTimeWithinWindow that leaves the end minute out
isTimeWithinWindow_EndExcluded(current, start, end) ==
    LET currentMinutes == convertToMinutes(current)
        startMinutes == convertToMinutes(start)
        endMinutes == convertToMinutes(end)
    IN  IF startMinutes <= endMinutes
        THEN currentMinutes >= startMinutes /\ currentMinutes < endMinutes
        ELSE currentMinutes >= startMinutes \/ currentMinutes < endMinutes

isTimeWithinWindow(current, start, end) ==
    LET currentMinutes == convertToMinutes(current)
        startMinutes == convertToMinutes(start)
        endMinutes == convertToMinutes(end)
    IN  IF startMinutes <= endMinutes
        THEN currentMinutes >= startMinutes /\ currentMinutes <= endMinutes
        ELSE currentMinutes >= startMinutes \/ currentMinutes <= endMinutes

isWithinTradingHours(t) ==
    isTimeWithinWindow(getCurrentTimeInTradingTz(t, TradingHours.timezone),
                       TradingHours.start, TradingHours.end)

\* an isTradingActive that is content with either flag
isTradingActive_Either(loggedIn, t) == loggedIn \/ isWithinTradingHours(t)

isTradingActive(loggedIn, t) == loggedIn /\ isWithinTradingHours(t)

\* a getTradingSessionState with the two action flags the wrong way round
getTradingSessionState_Swapped(loggedIn, t) ==
    [isWithinTradingHours |-> isWithinTradingHours(t),
     isLoggedIn |-> loggedIn,
     shouldLogon |-> ~isWithinTradingHours(t) /\ loggedIn,
     shouldLogout |-> isWithinTradingHours(t) /\ ~loggedIn]

getTradingSessionState(loggedIn, t) ==
    [isWithinTradingHours |-> isWithinTradingHours(t),
     isLoggedIn |-> loggedIn,
     shouldLogon |-> isWithinTradingHours(t) /\ ~loggedIn,
     shouldLogout |-> ~isWithinTradingHours(t) /\ loggedIn]

(***************************************************************************)
(* RateLimiter (index-map version).  The operators work on a record rl of  *)
(* the limiter's fields and return the record after the method has run;    *)
(* a method that also returns a value returns [result, rl].                *)
(***************************************************************************)
\* the limiter as a handler finds it; callbacks collects the onSendCallback
\* invocations the handler makes
RL == [orderQueue |-> orderQueue,
       orderIndexMap |-> orderIndexMap,
       ordersThisSecond |-> ordersThisSecond,
       currentSecond |-> currentSecond,
       nextSeq |-> nextSeq,
       callbacks |-> << >>]

\* Map<number, number>
EmptyMap == [k \in {} |-> 0]
mapHas(m, key) == key \in DOMAIN m
mapSet(m, key, value) ==
    [k \in DOMAIN m \cup {key} |-> IF k = key THEN value ELSE m[k]]
mapDelete(m, key) == [k \in DOMAIN m \ {key} |-> m[k]]

\* Array.prototype.splice(index, 1), index 0-based
splice(q, index) ==
    SubSeq(q, 1, index) \o SubSeq(q, index + 2, Len(q))

\* a handleSendToExchange that skips its isTradingActive check
handleSendToExchange_Unchecked(order, seq) ==
    [order |-> order, at |-> now, loggedIn |-> isLoggedIn, sent |-> TRUE,
     seq |-> seq]

\* OrderManagement.handleSendToExchange, the limiter's onSendCallback: the
\* record of one invocation.  sent = send(order) was called; otherwise the
\* order went to rejectOrder.  seq is the ordinal of the queue entry the
\* order was drained from, 0 for an order that was never queued.
handleSendToExchange(order, seq) ==
    [order |-> order,
     at |-> now,
     loggedIn |-> isLoggedIn,
     sent |-> isTradingActive(isLoggedIn, now),
     seq |-> seq]

\* no lazy reset at all
lazyReset_Never(rl) == rl

\* a lazy reset that moves on to the new second but keeps the old count
lazyReset_KeepCount(rl) ==
    [rl EXCEPT !.currentSecond = now \div MILLISECONDS_PER_SECOND]

\* canSendImmediately: the fields after the call (the lazy reset) ...
lazyReset(rl) ==
    IF now \div MILLISECONDS_PER_SECOND # rl.currentSecond
    THEN [rl EXCEPT !.currentSecond = now \div MILLISECONDS_PER_SECOND,
                    !.ordersThisSecond = 0]
    ELSE rl

\* a canSendImmediately that compares with <= instead of <
canSendImmediately_OffByOne(rl) ==
    lazyReset(rl).ordersThisSecond <= ordersPerSecond

\* ... and the value it returns
canSendImmediately(rl) == lazyReset(rl).ordersThisSecond < ordersPerSecond

\* a sendOrderNow that invokes the callback twice
sendOrderNow_Twice(rl, order, seq) ==
    [rl EXCEPT !.ordersThisSecond = @ + 1,
               !.callbacks = Append(Append(@, handleSendToExchange(order, seq)),
                                    handleSendToExchange(order, seq))]

sendOrderNow(rl, order, seq) ==
    [rl EXCEPT !.ordersThisSecond = @ + 1,
               !.callbacks = Append(@, handleSendToExchange(order, seq))]

\* a queueOrder that uses unshift instead of push
queueOrder_AtHead(rl, order) ==
    LET queuedOrder ==
            [m_symbolId |-> order.m_symbolId,
             m_price |-> order.m_price,
             m_qty |-> order.m_qty,
             m_side |-> order.m_side,
             m_orderId |-> order.m_orderId,
             requestType |-> order.requestType,
             timestamp |-> order.timestamp,
             queuedAt |-> now,
             originalTimestamp |->
                 IF order.timestamp # 0 THEN order.timestamp ELSE now,
             seq |-> rl.nextSeq]
    IN  [rl EXCEPT
            !.orderQueue = <<queuedOrder>> \o @,
            !.orderIndexMap = mapSet(@, queuedOrder.m_orderId, Len(rl.orderQueue)),
            !.nextSeq = @ + 1]

queueOrder(rl, order) ==
    LET queuedOrder ==
            [m_symbolId |-> order.m_symbolId,
             m_price |-> order.m_price,
             m_qty |-> order.m_qty,
             m_side |-> order.m_side,
             m_orderId |-> order.m_orderId,
             requestType |-> order.requestType,
             timestamp |-> order.timestamp,
             queuedAt |-> now,
             originalTimestamp |->
                 IF order.timestamp # 0 THEN order.timestamp ELSE now,
             seq |-> rl.nextSeq]
    IN  [rl EXCEPT
            !.orderQueue = Append(@, queuedOrder),
            !.orderIndexMap = mapSet(@, queuedOrder.m_orderId, Len(rl.orderQueue)),
            !.nextSeq = @ + 1]

\* for (let i = from; i < orderQueue.length; i++) map.set(queue[i].id, i)
RECURSIVE setIndexesFrom(_, _, _)
setIndexesFrom(m, q, i) ==
    IF i < Len(q)
    THEN setIndexesFrom(mapSet(m, q[i + 1].m_orderId, i), q, i + 1)
    ELSE m

updateIndexMapAfterRemoval(rl, removedIndex) ==
    [rl EXCEPT !.orderIndexMap = setIndexesFrom(@, rl.orderQueue, removedIndex)]

updateIndexMapAfterShift(rl) ==
    [rl EXCEPT !.orderIndexMap = setIndexesFrom(@, rl.orderQueue, 0)]

removeOrderFromQueue(rl, index) ==
    IF ~(index >= 0 /\ index < Len(rl.orderQueue))
    THEN rl
    ELSE LET removedOrder == rl.orderQueue[index + 1]
         IN  updateIndexMapAfterRemoval(
                 [rl EXCEPT
                     !.orderQueue = splice(@, index),
                     !.orderIndexMap = mapDelete(@, removedOrder.m_orderId)],
                 index)

\* a modifyQueuedOrder that updates the price but not the quantity
modifyQueuedOrder_PriceOnly(rl, orderId, newPrice, newQty) ==
    IF mapHas(rl.orderIndexMap, orderId)
       /\ rl.orderIndexMap[orderId] < Len(rl.orderQueue)
    THEN [result |-> TRUE,
          rl |-> [rl EXCEPT
                     !.orderQueue[rl.orderIndexMap[orderId] + 1].m_price = newPrice]]
    ELSE [result |-> FALSE, rl |-> rl]

modifyQueuedOrder(rl, orderId, newPrice, newQty) ==
    IF mapHas(rl.orderIndexMap, orderId)
       /\ rl.orderIndexMap[orderId] < Len(rl.orderQueue)
    THEN [result |-> TRUE,
          rl |-> [rl EXCEPT
                     !.orderQueue[rl.orderIndexMap[orderId] + 1].m_price = newPrice,
                     !.orderQueue[rl.orderIndexMap[orderId] + 1].m_qty = newQty]]
    ELSE [result |-> FALSE, rl |-> rl]

cancelQueuedOrder(rl, orderId) ==
    IF mapHas(rl.orderIndexMap, orderId)
       /\ rl.orderIndexMap[orderId] < Len(rl.orderQueue)
    THEN [result |-> TRUE,
          rl |-> removeOrderFromQueue(rl, rl.orderIndexMap[orderId])]
    ELSE [result |-> FALSE, rl |-> rl]

handleQueueOperations(rl, request) ==
    CASE request.requestType = Modify ->
            modifyQueuedOrder(rl, request.m_orderId, request.m_price, request.m_qty)
      [] request.requestType = Cancel ->
            cancelQueuedOrder(rl, request.m_orderId)
      [] OTHER -> [result |-> FALSE, rl |-> rl]

\* returns true if the request was handled now, false if it was queued
processOrder(rl, request) ==
    LET requestWithTimestamp ==
            [request EXCEPT
                !.timestamp = now,
                !.requestType = IF @ # Unknown THEN @ ELSE New]
        handled == handleQueueOperations(rl, requestWithTimestamp)
    IN  IF handled.result
        THEN [result |-> TRUE, rl |-> handled.rl]
        ELSE IF canSendImmediately(handled.rl)
             THEN [result |-> TRUE,
                   rl |-> sendOrderNow(lazyReset(handled.rl), requestWithTimestamp, 0)]
             ELSE [result |-> FALSE,
                   rl |-> queueOrder(lazyReset(handled.rl), requestWithTimestamp)]

createOrderToSend(queuedOrder) ==
    [m_symbolId |-> queuedOrder.m_symbolId,
     m_price |-> queuedOrder.m_price,
     m_qty |-> queuedOrder.m_qty,
     m_side |-> queuedOrder.m_side,
     m_orderId |-> queuedOrder.m_orderId,
     requestType |->
         IF queuedOrder.requestType # Unknown THEN queuedOrder.requestType ELSE New,
     timestamp |-> queuedOrder.originalTimestamp]

\* a pop() in place of the shift()
shiftIndex_Pop(q) == Len(q) - 1

\* the entry that orderQueue.shift() takes
shiftIndex(q) == 0

\* one iteration of the while loop of processQueue: take an entry out, fix
\* the index, rebuild the request, send it
drainStep(rl) ==
    LET order == rl.orderQueue[shiftIndex(rl.orderQueue) + 1]
        shifted == [rl EXCEPT
                       !.orderQueue = splice(@, shiftIndex(rl.orderQueue)),
                       !.orderIndexMap = mapDelete(@, order.m_orderId)]
    IN  sendOrderNow(updateIndexMapAfterShift(shifted),
                     createOrderToSend(order), order.seq)

\* a drain that stops after its first entry
drainLoop_Once(rl) ==
    IF Len(rl.orderQueue) > 0
    THEN IF canSendImmediately(rl)
         THEN drainStep(lazyReset(rl))
         ELSE lazyReset(rl)
    ELSE rl

\* while (orderQueue.length > 0 && canSendImmediately()) { ... }
RECURSIVE drainLoop(_)
drainLoop(rl) ==
    IF Len(rl.orderQueue) > 0
    THEN IF canSendImmediately(rl)
         THEN drainLoop(drainStep(lazyReset(rl)))
         ELSE lazyReset(rl)
    ELSE rl

processQueue(rl) ==
    IF Len(rl.orderQueue) = 0 THEN rl ELSE drainLoop(rl)

\* a clearQueue that forgets orderIndexMap.clear()
clearQueue_KeepIndex(rl) ==
    [result |-> Len(rl.orderQueue), rl |-> [rl EXCEPT !.orderQueue = << >>]]

clearQueue(rl) ==
    [result |-> Len(rl.orderQueue),
     rl |-> [rl EXCEPT !.orderQueue = << >>, !.orderIndexMap = EmptyMap]]

\* a getQueueStats that takes the queue length for the count of the second
getQueueStats_FromQueue(rl) ==
    [queueLength |-> Len(rl.orderQueue),
     ordersThisSecond |-> rl.ordersThisSecond,
     rateLimit |-> ordersPerSecond,
     remainingCapacity |->
         IF ordersPerSecond - Len(rl.orderQueue) > 0
         THEN ordersPerSecond - Len(rl.orderQueue)
         ELSE 0]

getQueueStats(rl) ==
    [queueLength |-> Len(rl.orderQueue),
     ordersThisSecond |-> rl.ordersThisSecond,
     rateLimit |-> ordersPerSecond,
     remainingCapacity |->
         IF ordersPerSecond - rl.ordersThisSecond > 0
         THEN ordersPerSecond - rl.ordersThisSecond
         ELSE 0]

isOrderInQueue(rl, orderId) == mapHas(rl.orderIndexMap, orderId)

getOrderQueuePosition(rl, orderId) ==
    IF mapHas(rl.orderIndexMap, orderId)
    THEN rl.orderIndexMap[orderId]
    ELSE QUEUE_NOT_FOUND_INDEX

(***************************************************************************)
(* OrderManagement                                                         *)
(***************************************************************************)
\* a validateOrderRequest without the price check
validateOrderRequest_PriceUnchecked(request) ==
    /\ ~(request.m_orderId = 0 \/ request.m_orderId <= 0)
    /\ ~(request.m_symbolId = 0 \/ request.m_symbolId <= 0)
    /\ ~(request.requestType # Cancel
         /\ (request.m_qty = 0 \/ request.m_qty <= 0))
    /\ ~(request.m_side = "" \/ (request.m_side # "B" /\ request.m_side # "S"))

\* utils.validateOrderRequest: TRUE when it returns, FALSE when it throws
validateOrderRequest(request) ==
    /\ ~(request.m_orderId = 0 \/ request.m_orderId <= 0)
    /\ ~(request.m_symbolId = 0 \/ request.m_symbolId <= 0)
    /\ ~(request.requestType # Cancel
         /\ (request.m_price = 0 \/ request.m_price <= 0))
    /\ ~(request.requestType # Cancel
         /\ (request.m_qty = 0 \/ request.m_qty <= 0))
    /\ ~(request.m_side = "" \/ (request.m_side # "B" /\ request.m_side # "S"))

\* a processOrderRequest without the isTradingActive check
processOrderRequest_Ungated(rl, request) ==
    IF ~validateOrderRequest(request)
    THEN [outcome |-> "rejected: processing failed", rl |-> rl]
    ELSE LET timestampedRequest ==
                 [request EXCEPT
                     !.timestamp = IF @ # 0 THEN @ ELSE now,
                     !.requestType = IF @ # Unknown THEN @ ELSE New]
             wasProcessedImmediately == processOrder(rl, timestampedRequest)
         IN  [outcome |-> IF wasProcessedImmediately.result
                          THEN "processed immediately"
                          ELSE "queued for rate limiting",
              rl |-> wasProcessedImmediately.rl]

\* processOrderRequest: [outcome, rl].  outcome is the branch taken:
\* "rejected" with the reason, or what processOrder returned
processOrderRequest(rl, request) ==
    IF ~validateOrderRequest(request)
    THEN [outcome |-> "rejected: processing failed", rl |-> rl]
    ELSE IF ~isTradingActive(isLoggedIn, now)
    THEN [outcome |-> "rejected: trading not active", rl |-> rl]
    ELSE LET timestampedRequest ==
                 [request EXCEPT
                     !.timestamp = IF @ # 0 THEN @ ELSE now,
                     !.requestType = IF @ # Unknown THEN @ ELSE New]
             wasProcessedImmediately == processOrder(rl, timestampedRequest)
         IN  [outcome |-> IF wasProcessedImmediately.result
                          THEN "processed immediately"
                          ELSE "queued for rate limiting",
              rl |-> wasProcessedImmediately.rl]

\* a checkAndUpdateSession without the shouldLogout branch
checkAndUpdateSession_NoLogout(loggedIn, t) ==
    LET sessionState == getTradingSessionState(loggedIn, t)
    IN  IF sessionState.shouldLogon THEN TRUE ELSE loggedIn

\* a checkAndUpdateSession that logs on without looking at the window
checkAndUpdateSession_AlwaysLogon(loggedIn, t) ==
    LET sessionState == getTradingSessionState(loggedIn, t)
    IN  IF ~loggedIn THEN TRUE
        ELSE IF sessionState.shouldLogout THEN FALSE
        ELSE loggedIn

\* checkAndUpdateSession with sendLogon / sendLogout: the new isLoggedIn
checkAndUpdateSession(loggedIn, t) ==
    LET sessionState == getTradingSessionState(loggedIn, t)
    IN  IF sessionState.shouldLogon THEN TRUE
        ELSE IF sessionState.shouldLogout THEN FALSE
        ELSE loggedIn

(***************************************************************************)
(* Requests the upstream system hands to onData.  Order ids are unique     *)
(* across upstream systems (README, Key Assumptions 3): a New order        *)
(* carries the next id that no order taken in by the limiter has used.     *)
(* A Modify or Cancel names any id.                                        *)
(***************************************************************************)
\* a timestamp set by the upstream system, earlier than any Date.now() here
UpstreamTimestamp == InitialNow - 1

ModifyValues == {<<2, 3>>}

NewRequests ==
    {[m_symbolId |-> 1, m_price |-> 1, m_qty |-> 1, m_side |-> "B",
      m_orderId |-> nextOrderId, requestType |-> k[1], timestamp |-> k[2]] :
        k \in {<<Unknown, 0>>, <<New, UpstreamTimestamp>>}}

ModifyRequests ==
    {[m_symbolId |-> 2, m_price |-> v[1], m_qty |-> v[2], m_side |-> "S",
      m_orderId |-> id, requestType |-> Modify, timestamp |-> 0] :
        id \in 1..MaxOrderId, v \in ModifyValues}

CancelRequests ==
    {[m_symbolId |-> 2, m_price |-> 0, m_qty |-> 0, m_side |-> "S",
      m_orderId |-> id, requestType |-> Cancel, timestamp |-> 0] :
        id \in 1..MaxOrderId}

\* requests validateOrderRequest throws on: one for each of its checks, with
\* a zero and with a negative number, for an id that is new and for one that
\* may be in the queue
InvalidRequests ==
    LET new == [m_symbolId |-> 1, m_price |-> 1, m_qty |-> 1, m_side |-> "B",
                m_orderId |-> nextOrderId, requestType |-> New, timestamp |-> 0]
        modify == [m_symbolId |-> 2, m_price |-> 2, m_qty |-> 3, m_side |-> "S",
                   m_orderId |-> 1, requestType |-> Modify, timestamp |-> 0]
        cancel == [m_symbolId |-> 2, m_price |-> 0, m_qty |-> 0, m_side |-> "S",
                   m_orderId |-> 1, requestType |-> Cancel, timestamp |-> 0]
    IN  {[new EXCEPT !.m_price = 0],
         [new EXCEPT !.m_qty = -1],
         [new EXCEPT !.m_orderId = 0],
         [new EXCEPT !.m_symbolId = -1],
         [new EXCEPT !.m_side = ""],
         [modify EXCEPT !.m_price = -1],
         [modify EXCEPT !.m_qty = 0],
         [modify EXCEPT !.m_symbolId = 0],
         [cancel EXCEPT !.m_orderId = -1],
         [cancel EXCEPT !.m_side = "X", !.m_price = 1, !.m_qty = 1]}

Requests ==
    (IF nextOrderId <= MaxOrderId THEN NewRequests ELSE {})
        \cup ModifyRequests \cup CancelRequests \cup InvalidRequests

isNewKind(request) == request.requestType \in {Unknown, New}

(***************************************************************************)
(* State machine                                                           *)
(***************************************************************************)
Init ==
    /\ now = InitialNow
    /\ ordersPerSecond \in 1..MaxRate
    /\ isInitialized = FALSE
    /\ isLoggedIn = FALSE
    /\ orderQueue = << >>
    /\ orderIndexMap = EmptyMap
    /\ ordersThisSecond = 0
    /\ currentSecond = InitialNow \div MILLISECONDS_PER_SECOND
    /\ lastResult = [op |-> "constructor", outcome |-> "", count |-> 0]
    /\ lastCallbacks = << >>
    /\ handedThisSecond = 0
    /\ drained = << >>
    /\ nextOrderId = 1
    /\ nextSeq = 1
    /\ roundTrip = [expected |-> << >>, sent |-> << >>]
    /\ burst = [started |-> FALSE, queueBefore |-> 0, ids |-> << >>,
                outcomes |-> << >>, sent |-> << >>]
    /\ tradingWindow = TradingHours

\* the ordinals of the drained entries among the callbacks
RECURSIVE drainedSeqs(_)
drainedSeqs(callbacks) ==
    IF callbacks = << >> THEN << >>
    ELSE (IF Head(callbacks).seq > 0 THEN <<Head(callbacks).seq>> ELSE << >>)
             \o drainedSeqs(Tail(callbacks))

\* the limiter's fields after a handler, and the record of what it handed over
SetRL(rl) ==
    /\ orderQueue' = rl.orderQueue
    /\ orderIndexMap' = rl.orderIndexMap
    /\ ordersThisSecond' = rl.ordersThisSecond
    /\ currentSecond' = rl.currentSecond
    /\ nextSeq' = rl.nextSeq
    /\ lastCallbacks' = rl.callbacks
    /\ handedThisSecond' = handedThisSecond + Len(rl.callbacks)
    /\ drained' = drained \o drainedSeqs(rl.callbacks)

\* OrderManagement.initialize: load the config, start the session timer and
\* run the first session check
Initialize ==
    /\ ~isInitialized
    /\ isInitialized' = TRUE
    /\ isLoggedIn' = checkAndUpdateSession(isLoggedIn, now)
    /\ lastResult' = [op |-> "initialize", outcome |-> "", count |-> 0]
    /\ lastCallbacks' = << >>
    /\ UNCHANGED <<now, ordersPerSecond, orderQueue, orderIndexMap,
                   ordersThisSecond, currentSecond, handedThisSecond, drained,
                   nextOrderId, nextSeq>>

\* OrderManagement.onData(request)
OnData(request) ==
    /\ isInitialized
    /\ LET done == processOrderRequest(RL, request)
       IN  /\ done.rl.nextSeq <= MaxEnqueued + 1
           /\ SetRL(done.rl)
           /\ lastResult' = [op |-> "onData", outcome |-> done.outcome, count |-> 0]
           /\ nextOrderId' =
                  IF isNewKind(request)
                     /\ done.outcome \in {"processed immediately",
                                          "queued for rate limiting"}
                  THEN nextOrderId + 1
                  ELSE nextOrderId
    /\ UNCHANGED <<now, ordersPerSecond, isInitialized, isLoggedIn>>

\* the setInterval callback of startQueueProcessor
ProcessQueueTick ==
    /\ SetRL(processQueue(RL))
    /\ lastResult' = [op |-> "processQueue", outcome |-> "",
                      count |-> Len(processQueue(RL).callbacks)]
    /\ UNCHANGED <<now, ordersPerSecond, isInitialized, isLoggedIn, nextOrderId>>

\* the setInterval callback of startSessionManagement
SessionPoll ==
    /\ isInitialized
    /\ isLoggedIn' = checkAndUpdateSession(isLoggedIn, now)
    /\ lastResult' = [op |-> "checkAndUpdateSession", outcome |-> "", count |-> 0]
    /\ lastCallbacks' = << >>
    /\ UNCHANGED <<now, ordersPerSecond, isInitialized, orderQueue,
                   orderIndexMap, ordersThisSecond, currentSecond,
                   handedThisSecond, drained, nextOrderId, nextSeq>>

\* RateLimiter.clearQueue, a public method of the limiter
ClearQueue ==
    /\ SetRL(clearQueue(RL).rl)
    /\ lastResult' = [op |-> "clearQueue", outcome |-> "",
                      count |-> clearQueue(RL).result]
    /\ UNCHANGED <<now, ordersPerSecond, isInitialized, isLoggedIn, nextOrderId>>

\* time passes to the next epoch second
AdvanceSecond ==
    /\ (now % MILLISECONDS_PER_MINUTE) \div MILLISECONDS_PER_SECOND
           < MaxSecondsIntoMinute
    /\ now' = now + MILLISECONDS_PER_SECOND
    /\ handedThisSecond' = 0
    /\ UNCHANGED <<ordersPerSecond, isInitialized, isLoggedIn, orderQueue,
                   orderIndexMap, ordersThisSecond, currentSecond, lastResult,
                   lastCallbacks, drained, nextOrderId, nextSeq>>

\* time passes to the start of the next minute
AdvanceMinute ==
    /\ (now - InitialNow) \div MILLISECONDS_PER_MINUTE < MaxMinute
    /\ now' = (now \div MILLISECONDS_PER_MINUTE + 1) * MILLISECONDS_PER_MINUTE
    /\ handedThisSecond' = 0
    /\ UNCHANGED <<ordersPerSecond, isInitialized, isLoggedIn, orderQueue,
                   orderIndexMap, ordersThisSecond, currentSecond, lastResult,
                   lastCallbacks, drained, nextOrderId, nextSeq>>

Next ==
    \/ Initialize /\ UNCHANGED scenario
    \/ \E request \in Requests : OnData(request) /\ UNCHANGED scenario
    \/ ProcessQueueTick /\ UNCHANGED scenario
    \/ SessionPoll /\ UNCHANGED scenario
    \/ ClearQueue /\ UNCHANGED scenario
    \/ AdvanceSecond /\ UNCHANGED scenario
    \/ AdvanceMinute /\ UNCHANGED scenario

Spec == Init /\ [][Next]_vars

(***************************************************************************)
(* Properties                                                              *)
(***************************************************************************)
\* the request fields a caller sets, as an order carries them on
sameOrder(a, b) ==
    /\ a.m_orderId = b.m_orderId
    /\ a.m_symbolId = b.m_symbolId
    /\ a.m_price = b.m_price
    /\ a.m_qty = b.m_qty
    /\ a.m_side = b.m_side

\* a request onData passes on to RateLimiter.processOrder
reachesLimiter(request) ==
    validateOrderRequest(request) /\ isTradingActive(isLoggedIn, now)

\* C1: the number of orders handed to the send callback while the clock
\* reads one epoch second, immediate and drained sends together, never
\* exceeds ordersPerSecond.
C1_RateLimitPerSecond == handedThisSecond <= ordersPerSecond

\* the budget of a second is used up by an immediate send and a drained one
\* while an entry is still waiting
C1_Witness ==
    /\ ordersPerSecond = 2
    /\ handedThisSecond = ordersPerSecond
    /\ Len(lastCallbacks) = 1
    /\ lastCallbacks[1].seq > 0
    /\ Len(orderQueue) > 0

\* C2: every call of send happens at an instant when the session is logged
\* in and the time is inside the trading window; an order handed over when
\* trading is not active (drained after the window closed) is not sent but
\* goes to rejectOrder.
C2_ForwardedOnlyWhileActive ==
    \A i \in 1..Len(lastCallbacks) :
        lastCallbacks[i].sent
            <=> (lastCallbacks[i].loggedIn
                 /\ isWithinTradingHours(lastCallbacks[i].at))

\* an entry queued inside the window is drained after the window closed,
\* still logged in, and is rejected
C2_Witness ==
    \E i \in 1..Len(lastCallbacks) :
        /\ lastCallbacks[i].seq > 0
        /\ lastCallbacks[i].loggedIn
        /\ ~isWithinTradingHours(lastCallbacks[i].at)
        /\ ~lastCallbacks[i].sent

\* C3: a valid New order submitted while ordersThisSecond, after the lazy
\* reset, is below ordersPerSecond is processed immediately: the send
\* callback is invoked exactly once, with that order, the counter goes up by
\* exactly one and the queue is unchanged.
C3_ImmediateAcceptance ==
    [][\A request \in Requests :
          (/\ isNewKind(request)
           /\ reachesLimiter(request)
           /\ lazyReset(RL).ordersThisSecond < ordersPerSecond
           /\ OnData(request))
          => /\ lastResult'.outcome = "processed immediately"
             /\ Len(lastCallbacks') = 1
             /\ sameOrder(lastCallbacks'[1].order, request)
             /\ lastCallbacks'[1].seq = 0
             /\ ordersThisSecond' = lazyReset(RL).ordersThisSecond + 1
             /\ orderQueue' = orderQueue
             /\ orderIndexMap' = orderIndexMap]_vars

\* a New order was sent at once while another order was waiting in the queue
C3_Witness ==
    /\ lastResult.outcome = "processed immediately"
    /\ Len(lastCallbacks) = 1
    /\ lastCallbacks[1].order.requestType = New
    /\ lastCallbacks[1].order.m_orderId = MaxOrderId
    /\ Len(orderQueue) > 0

\* C4: a valid New order submitted when the budget of the current second is
\* used up is queued: the queue grows by exactly one, the new entry is at
\* the tail, the send callback is not invoked and the counter is unchanged.
C4_QueuedWhenExhausted ==
    [][\A request \in Requests :
          (/\ isNewKind(request)
           /\ reachesLimiter(request)
           /\ lazyReset(RL).ordersThisSecond >= ordersPerSecond
           /\ OnData(request))
          => /\ lastResult'.outcome = "queued for rate limiting"
             /\ Len(orderQueue') = Len(orderQueue) + 1
             /\ SubSeq(orderQueue', 1, Len(orderQueue)) = orderQueue
             /\ sameOrder(orderQueue'[Len(orderQueue')], request)
             /\ lastCallbacks' = << >>
             /\ ordersThisSecond' = ordersThisSecond]_vars

\* a New order was queued behind an entry that was already waiting
C4_Witness ==
    /\ lastResult.outcome = "queued for rate limiting"
    /\ Len(orderQueue) >= 2
    /\ orderQueue[Len(orderQueue)].requestType = New
    /\ orderQueue[Len(orderQueue)].seq = nextSeq - 1
    /\ ordersThisSecond = ordersPerSecond

\* C5: queue entries leave by drains in the order they were inserted: the
\* queue is in insertion order, the drained entries were handed over in
\* insertion order, and no drained entry was inserted after an entry that
\* is still waiting.
C5_FifoDispatch ==
    /\ \A i, j \in 1..Len(orderQueue) :
           i < j => orderQueue[i].seq < orderQueue[j].seq
    /\ \A i, j \in 1..Len(drained) : i < j => drained[i] < drained[j]
    /\ \A i \in 1..Len(drained) : \A j \in 1..Len(orderQueue) :
           drained[i] < orderQueue[j].seq

\* two entries that waited together were drained by separate ticks while a
\* third is still waiting
C5_Witness ==
    /\ Len(drained) >= 2
    /\ Len(orderQueue) > 0
    /\ Len(lastCallbacks) = 1
    /\ lastCallbacks[1].seq = drained[Len(drained)]

\* the queue holds an entry for the order id
inQueue(q, orderId) == \E i \in 1..Len(q) : q[i].m_orderId = orderId

\* C6: a Modify of an order id that is in the queue succeeds and changes
\* only the price and the quantity of that entry, in place: the position,
\* the timestamps, the length, every other entry, the index and the counter
\* stay, and nothing is sent.
C6_ModifyInPlace ==
    [][\A request \in ModifyRequests :
          (/\ reachesLimiter(request)
           /\ inQueue(orderQueue, request.m_orderId)
           /\ OnData(request))
          => /\ lastResult'.outcome = "processed immediately"
             /\ \E i \in 1..Len(orderQueue) :
                    /\ orderQueue[i].m_orderId = request.m_orderId
                    /\ orderQueue' =
                           [orderQueue EXCEPT ![i].m_price = request.m_price,
                                              ![i].m_qty = request.m_qty]
             /\ orderIndexMap' = orderIndexMap
             /\ ordersThisSecond' = ordersThisSecond
             /\ lastCallbacks' = << >>]_vars

\* C7: a Modify or a Cancel of an order id that is not in the queue is not
\* reported as processed, and the queue is left as it was: no entry is
\* appended for it, whatever the budget of the second.
C7_AbsentIdNotFound ==
    [][\A request \in ModifyRequests \cup CancelRequests :
          (/\ reachesLimiter(request)
           /\ ~inQueue(orderQueue, request.m_orderId)
           /\ OnData(request))
          => /\ lastResult'.outcome # "processed immediately"
             /\ orderQueue' = orderQueue]_vars

\* C8: a Cancel of an order id that is in the queue succeeds, removes
\* exactly that entry, so the queue is one shorter with the other entries
\* as they were and in their order, and the id is no longer reported queued.
C8_CancelRemovesEntry ==
    [][\A request \in CancelRequests :
          (/\ reachesLimiter(request)
           /\ inQueue(orderQueue, request.m_orderId)
           /\ OnData(request))
          => /\ lastResult'.outcome = "processed immediately"
             /\ \E i \in 1..Len(orderQueue) :
                    /\ orderQueue[i].m_orderId = request.m_orderId
                    /\ orderQueue' = splice(orderQueue, i - 1)
             /\ ~mapHas(orderIndexMap', request.m_orderId)
             /\ lastCallbacks' = << >>]_vars

\* C9: the send callback is never invoked with a Modify or a Cancel, and no
\* Modify or Cancel is held in the queue.
C9_NoBareModifyOrCancel ==
    /\ \A i \in 1..Len(lastCallbacks) :
           lastCallbacks[i].order.requestType \notin {Modify, Cancel}
    /\ \A i \in 1..Len(orderQueue) :
           orderQueue[i].requestType \notin {Modify, Cancel}

\* C10: the queue holds at most one entry for an order id.
C10_NeverDuplicated ==
    \A i, j \in 1..Len(orderQueue) :
        i # j => orderQueue[i].m_orderId # orderQueue[j].m_orderId

\* C11: the index maps an order id to position p exactly when the entry at
\* position p of the queue has that id: isOrderInQueue is true exactly for
\* the ids in the queue and getOrderQueuePosition is the entry's position,
\* or QUEUE_NOT_FOUND_INDEX for an id that is not queued.
C11_IndexConsistency ==
    /\ \A i \in 1..Len(orderQueue) :
           /\ isOrderInQueue(RL, orderQueue[i].m_orderId)
           /\ getOrderQueuePosition(RL, orderQueue[i].m_orderId) = i - 1
    /\ \A orderId \in 1..MaxOrderId :
           ~inQueue(orderQueue, orderId)
               => /\ ~isOrderInQueue(RL, orderId)
                  /\ getOrderQueuePosition(RL, orderId) = QUEUE_NOT_FOUND_INDEX

\* C12: clearQueue returns the number of entries that were queued, leaves
\* the queue empty and no id reported as queued, and hands nothing to the
\* send callback; an entry handed over by any later step was in the queue
\* just before that step, under an ordinal no cleared entry carries.
C12_ClearQueue ==
    [][/\ ClearQueue
          => /\ lastResult'.count = Len(orderQueue)
             /\ Len(orderQueue') = 0
             /\ \A orderId \in 1..MaxOrderId :
                    /\ ~isOrderInQueue(RL', orderId)
                    /\ getOrderQueuePosition(RL', orderId) = QUEUE_NOT_FOUND_INDEX
             /\ lastCallbacks' = << >>
             /\ drained' = drained
       /\ \A i \in 1..Len(orderQueue') : orderQueue'[i].seq < nextSeq'
       /\ \A i \in (Len(drained) + 1)..Len(drained') :
              \E j \in 1..Len(orderQueue) : orderQueue[j].seq = drained'[i]]_vars

\* clearQueue has just removed two waiting entries
C12_Witness ==
    /\ lastResult.op = "clearQueue"
    /\ lastResult.count = 2
    /\ orderQueue = << >>
    /\ nextSeq > 2

(***************************************************************************)
(* Round-trip runs: New orders with fresh ids, Modify and Cancel of ids    *)
(* that are in the queue, drain ticks and clock seconds, all while the     *)
(* window stays open.  roundTrip.expected is the reference: the orders     *)
(* reported queued, in that order, without the cancelled ones and with     *)
(* the values of their last Modify.  roundTrip.sent is what send saw of    *)
(* the drained orders.                                                     *)
(***************************************************************************)
MaxRoundTrip == 4       \* New orders of a round-trip run
MaxDrainSeconds == 3    \* seconds of the open minute a round-trip run explores

orderValues(order) ==
    [m_orderId |-> order.m_orderId,
     m_price |-> order.m_price,
     m_qty |-> order.m_qty]

\* the drained orders among the callbacks that went on to send
RECURSIVE sentOfDrained(_)
sentOfDrained(callbacks) ==
    IF callbacks = << >> THEN << >>
    ELSE (IF Head(callbacks).seq > 0 /\ Head(callbacks).sent
          THEN <<orderValues(Head(callbacks).order)>>
          ELSE << >>)
             \o sentOfDrained(Tail(callbacks))

RoundTripIds == 1..MaxRoundTrip

RoundTripSubmit ==
    /\ nextOrderId <= MaxRoundTrip
    /\ \E request \in NewRequests :
           /\ OnData(request)
           /\ roundTrip' =
                  IF lastResult'.outcome = "queued for rate limiting"
                  THEN [roundTrip EXCEPT
                           !.expected = Append(@, orderValues(request))]
                  ELSE roundTrip
    /\ UNCHANGED <<burst, tradingWindow>>

RoundTripModify ==
    \E id \in RoundTripIds, base \in ModifyRequests :
        LET request == [base EXCEPT !.m_orderId = id]
        IN  /\ inQueue(orderQueue, id)
            /\ OnData(request)
            /\ roundTrip' =
                   [roundTrip EXCEPT
                       !.expected =
                           [i \in 1..Len(@) |->
                               IF @[i].m_orderId = id
                               THEN orderValues(request)
                               ELSE @[i]]]
            /\ UNCHANGED <<burst, tradingWindow>>

RoundTripCancel ==
    \E id \in RoundTripIds, base \in CancelRequests :
        LET request == [base EXCEPT !.m_orderId = id]
            survives(e) == e.m_orderId # id
        IN  /\ inQueue(orderQueue, id)
            /\ OnData(request)
            /\ roundTrip' =
                   [roundTrip EXCEPT !.expected = SelectSeq(@, survives)]
            /\ UNCHANGED <<burst, tradingWindow>>

RoundTripTick ==
    /\ ProcessQueueTick
    /\ roundTrip' =
           [roundTrip EXCEPT !.sent = @ \o sentOfDrained(lastCallbacks')]
    /\ UNCHANGED <<burst, tradingWindow>>

\* the clock moves on to the minute the window opens ...
RoundTripOpen ==
    /\ ~isWithinTradingHours(now)
    /\ AdvanceMinute
    /\ isWithinTradingHours(now')
    /\ UNCHANGED scenario

\* ... and from second to second inside it
RoundTripSecond ==
    /\ isWithinTradingHours(now)
    /\ (now % MILLISECONDS_PER_MINUTE) \div MILLISECONDS_PER_SECOND
           < MaxDrainSeconds
    /\ now' = now + MILLISECONDS_PER_SECOND
    /\ handedThisSecond' = 0
    /\ UNCHANGED <<ordersPerSecond, isInitialized, isLoggedIn, orderQueue,
                   orderIndexMap, ordersThisSecond, currentSecond, lastResult,
                   lastCallbacks, drained, nextOrderId, nextSeq, scenario>>

NextRoundTrip ==
    \/ Initialize /\ UNCHANGED scenario
    \/ SessionPoll /\ UNCHANGED scenario
    \/ RoundTripOpen
    \/ RoundTripSecond
    \/ RoundTripSubmit
    \/ RoundTripModify
    \/ RoundTripCancel
    \/ RoundTripTick

SpecRoundTrip == Init /\ [][NextRoundTrip]_vars

\* C13: once the queue has been drained empty with trading active all the
\* while, the orders send has seen from the drains are exactly the orders
\* that were queued and not cancelled, in the order they were queued, each
\* with the price and quantity of its last Modify.
C13_RoundTrip ==
    Len(orderQueue) = 0 => roundTrip.sent = roundTrip.expected

\* three orders were queued, one was cancelled, one modified, and the two
\* left were drained
C13_Witness ==
    /\ Len(orderQueue) = 0
    /\ nextSeq = 4
    /\ Len(roundTrip.sent) = 2
    /\ \E i \in 1..2 : roundTrip.sent[i].m_price = 2
    /\ \E i \in 1..2 : roundTrip.sent[i].m_price = 1

(***************************************************************************)
(* Burst runs.  The system runs as it pleases (New orders, drain ticks,    *)
(* polls, the clock) up to a moment when trading is active and the         *)
(* limiter has counted no order in the current second; from there on only  *)
(* New orders are submitted, with no drain tick and no clock second in     *)
(* between.  burst keeps the ids of the burst, the outcome reported for    *)
(* each and the ids passed on to send.                                     *)
(***************************************************************************)
MaxBurst == 5     \* New orders of a burst

\* the callbacks that went on to send
sentOfAll(callbacks) ==
    LET wentOn(c) == c.sent IN SelectSeq(callbacks, wentOn)

\* the ids among the callbacks that went on to send
sentIds(callbacks) ==
    [i \in 1..Len(sentOfAll(callbacks)) |->
        sentOfAll(callbacks)[i].order.m_orderId]

BurstPrelude ==
    /\ ~burst.started
    /\ \/ Initialize
       \/ SessionPoll
       \/ AdvanceSecond
       \/ AdvanceMinute
       \/ ProcessQueueTick
       \/ nextOrderId <= MaxOrderId /\ \E request \in NewRequests : OnData(request)
    /\ UNCHANGED scenario

BurstStart ==
    /\ ~burst.started
    /\ isInitialized
    /\ isTradingActive(isLoggedIn, now)
    /\ lazyReset(RL).ordersThisSecond = 0
    /\ burst' = [burst EXCEPT !.started = TRUE, !.queueBefore = Len(orderQueue)]
    /\ UNCHANGED <<now, ordersPerSecond, isInitialized, isLoggedIn, orderQueue,
                   orderIndexMap, ordersThisSecond, currentSecond, lastResult,
                   lastCallbacks, handedThisSecond, drained, nextOrderId,
                   nextSeq, roundTrip, tradingWindow>>

BurstSubmit ==
    /\ burst.started
    /\ Len(burst.ids) < MaxBurst
    /\ \E request \in NewRequests :
           /\ OnData(request)
           /\ burst' = [burst EXCEPT
                           !.ids = Append(@, request.m_orderId),
                           !.outcomes = Append(@, lastResult'.outcome),
                           !.sent = @ \o sentIds(lastCallbacks')]
    /\ UNCHANGED <<roundTrip, tradingWindow>>

NextBurst ==
    \/ BurstPrelude
    \/ BurstStart
    \/ BurstSubmit

SpecBurst == Init /\ [][NextBurst]_vars

min(a, b) == IF a < b THEN a ELSE b

\* C14: N New orders submitted in one second, from a moment when trading is
\* active and no order has been counted in that second, with no drain tick in
\* between: the first min(N, R) are accepted at once and sent in submission
\* order, the other N - min(N, R) are queued behind what was queued before,
\* in submission order, and getQueueStats().remainingCapacity is
\* R - min(N, R).
C14_BurstSplit ==
    burst.started /\ Len(burst.ids) >= 1
        => LET N == Len(burst.ids)
               m == min(N, ordersPerSecond)
           IN  /\ burst.outcomes =
                      [i \in 1..N |-> IF i <= m THEN "processed immediately"
                                      ELSE "queued for rate limiting"]
               /\ burst.sent = SubSeq(burst.ids, 1, m)
               /\ Len(orderQueue) = burst.queueBefore + N - m
               /\ \A i \in 1..(N - m) :
                      orderQueue[burst.queueBefore + i].m_orderId = burst.ids[m + i]
               /\ getQueueStats(RL).remainingCapacity = ordersPerSecond - m
               /\ getQueueStats(RL).queueLength = burst.queueBefore + N - m

\* R = 2, N = 5: two at once, three queued, nothing left of the budget
C14_Witness ==
    /\ burst.started
    /\ ordersPerSecond = 2
    /\ Len(burst.ids) = 5
    /\ Len(burst.sent) = 2
    /\ Len(orderQueue) = 3
    /\ getQueueStats(RL).remainingCapacity = 0

(***************************************************************************)
(* The drain tick after a second boundary                                  *)
(***************************************************************************)
\* the limiter has not looked at the clock since it entered a new second
counterIsStale == now \div MILLISECONDS_PER_SECOND # currentSecond

\* C15, as stated: a drain tick that finds the queue non-empty and is the
\* limiter's first look at the clock in a new second shortens the queue and
\* at least one order goes on to the exchange.
C15_TickAfterBoundary ==
    [][Len(orderQueue) > 0 /\ counterIsStale /\ ProcessQueueTick
           => /\ Len(orderQueue') < Len(orderQueue)
              /\ \E i \in 1..Len(lastCallbacks') : lastCallbacks'[i].sent]_vars

\* C15, amended: a drain tick that runs while trading is active, with a
\* non-empty queue and with budget left in the current second (always so when
\* it is the limiter's first look at the clock in a new second), takes at
\* least one entry off the head of the queue and every order it takes goes
\* on to the exchange.
C15_TickAfterBoundaryWhileActive ==
    [][(/\ Len(orderQueue) > 0
        /\ counterIsStale \/ ordersThisSecond < ordersPerSecond
        /\ isTradingActive(isLoggedIn, now)
        /\ ProcessQueueTick)
           => /\ Len(orderQueue') < Len(orderQueue)
              /\ Len(lastCallbacks') = Len(orderQueue) - Len(orderQueue')
              /\ \A i \in 1..Len(lastCallbacks') :
                     /\ lastCallbacks'[i].sent
                     /\ sameOrder(lastCallbacks'[i].order, orderQueue[i])]_vars

\* the budget was used up in the second before, an order was left in the
\* queue, and the first tick of the new second has sent it
C15_Witness ==
    /\ lastResult.op = "processQueue"
    /\ lastResult.count >= 1
    /\ handedThisSecond = lastResult.count
    /\ \A i \in 1..Len(lastCallbacks) : lastCallbacks[i].sent
    /\ ordersThisSecond = lastResult.count
    /\ (now % MILLISECONDS_PER_MINUTE) \div MILLISECONDS_PER_SECOND >= 1
    /\ isTradingActive(isLoggedIn, now)

(***************************************************************************)
(* What becomes of a queued order                                          *)
(***************************************************************************)
\* C16: every order reported queued is later forwarded to the exchange by a
\* drain unless it is cancelled or cleared first.  An entry a drain takes out
\* of the queue never comes back (its ordinal is not reused), so the claim
\* needs every entry a drain takes out to go on to the exchange.
C16_QueuedEventuallyForwarded ==
    \A i \in 1..Len(lastCallbacks) :
        lastCallbacks[i].seq > 0 => lastCallbacks[i].sent

(***************************************************************************)
(* Requests that are turned away                                           *)
(***************************************************************************)
\* the malformed requests as the contract lists them
malformed(request) ==
    \/ request.m_orderId <= 0
    \/ request.m_symbolId <= 0
    \/ request.m_side \notin {"B", "S"}
    \/ /\ request.requestType # Cancel
       /\ request.m_price <= 0 \/ request.m_qty <= 0

\* what onData does with a request it turns away for the given reason: no
\* fault, the limiter as it was, no callback
turnedAway(request, reason) ==
    processOrderRequest(RL, request) = [outcome |-> reason, rl |-> RL]

\* C17: onData turns a malformed request away before anything else, whatever
\* the trading state and whatever the queue holds: the queue, the index and
\* the counter stay as they are and nothing is handed to the callback.  A
\* request that is not malformed passes validation; a Cancel passes it
\* whatever its price and quantity.
C17_ValidationFirst ==
    /\ \A request \in Requests :
           IF malformed(request)
           THEN turnedAway(request, "rejected: processing failed")
           ELSE validateOrderRequest(request)
    /\ \A request \in CancelRequests : \A price, qty \in -1..1 :
           validateOrderRequest([request EXCEPT !.m_price = price,
                                                !.m_qty = qty])
    /\ lastResult.outcome = "rejected: processing failed"
           => lastCallbacks = << >>

\* a malformed request has been turned away while trading was active, the
\* queue held an order and the budget of the second was in use
C17_Witness ==
    /\ lastResult.outcome = "rejected: processing failed"
    /\ isTradingActive(isLoggedIn, now)
    /\ Len(orderQueue) > 0
    /\ ordersThisSecond > 0
    /\ \E request \in Requests : malformed(request) /\ isNewKind(request)
    /\ \E request \in Requests : malformed(request) /\ request.requestType = Modify
    /\ \E request \in Requests : malformed(request) /\ request.requestType = Cancel

\* C18: while trading is not active (outside the window or not logged in)
\* onData rejects every well-formed request, New, Modify or Cancel: nothing
\* is queued for later, the queue, the index and the counter stay as they
\* are and nothing is handed to the callback.
C18_RejectedWhileInactive ==
    /\ ~isTradingActive(isLoggedIn, now)
           => \A request \in Requests :
                  ~malformed(request)
                      => turnedAway(request, "rejected: trading not active")
    /\ lastResult.outcome = "rejected: trading not active"
           => lastCallbacks = << >>

\* a request has been rejected outside the window, with the session still
\* logged in and an order waiting in the queue, at a moment when the upstream
\* could send a New, a Modify or a Cancel
C18_Witness ==
    /\ lastResult.outcome = "rejected: trading not active"
    /\ ~isWithinTradingHours(now)
    /\ isLoggedIn
    /\ Len(orderQueue) > 0
    /\ \A type \in {New, Modify, Cancel} :
           \E request \in Requests :
               ~malformed(request) /\ request.requestType = type

\* C19: a drain tick that runs while trading is not active leaves the queue
\* and the index as they are and hands nothing to the callback: the queued
\* orders are still there for a later tick.
C19_TickWhileInactive ==
    ~isTradingActive(isLoggedIn, now)
        => /\ processQueue(RL).orderQueue = orderQueue
           /\ processQueue(RL).orderIndexMap = orderIndexMap
           /\ processQueue(RL).callbacks = << >>

(***************************************************************************)
(* The session state                                                       *)
(***************************************************************************)
\* C20: whenever the session state is evaluated, with the session logged in
\* or not, it reports the window and the login as they are, shouldLogon is
\* "within the window and not logged in", shouldLogout is "outside the window
\* and logged in", the two are never both true, and both are false exactly
\* when logged-in equals within-the-window.
C20_SessionStateFlags ==
    \A loggedIn \in {isLoggedIn, ~isLoggedIn} :
        LET sessionState == getTradingSessionState(loggedIn, now)
            withinWindow == isWithinTradingHours(now)
        IN  /\ sessionState.isWithinTradingHours = withinWindow
            /\ sessionState.isLoggedIn = loggedIn
            /\ sessionState.shouldLogon = (withinWindow /\ ~loggedIn)
            /\ sessionState.shouldLogout = (~withinWindow /\ loggedIn)
            /\ ~(sessionState.shouldLogon /\ sessionState.shouldLogout)
            /\ (~sessionState.shouldLogon /\ ~sessionState.shouldLogout)
                   <=> (loggedIn = withinWindow)

\* the window has closed on a session that is still logged in: the poll that
\* comes next finds shouldLogout set and shouldLogon clear
C20_Witness ==
    /\ isInitialized
    /\ isLoggedIn
    /\ ~isWithinTradingHours(now)
    /\ getTradingSessionState(isLoggedIn, now).shouldLogout
    /\ ~getTradingSessionState(isLoggedIn, now).shouldLogon
    /\ getTradingSessionState(FALSE, now - MILLISECONDS_PER_MINUTE).shouldLogon

\* C21: the session starts logged out; isLoggedIn becomes true only in a
\* session check (the one initialize() makes or one of the timer) that finds
\* shouldLogon, with the time inside the window, and becomes false only in a
\* session check that finds shouldLogout, with the time outside the window.
\* No request, drain tick, clearQueue or clock step changes it.
C21_SessionStateMachine ==
    /\ ~isLoggedIn
    /\ [][isLoggedIn' # isLoggedIn
              => /\ Initialize \/ SessionPoll
                 /\ IF isLoggedIn'
                    THEN /\ getTradingSessionState(isLoggedIn, now).shouldLogon
                         /\ isWithinTradingHours(now)
                    ELSE /\ getTradingSessionState(isLoggedIn, now).shouldLogout
                         /\ ~isWithinTradingHours(now)]_vars

\* the session was logged on in the window, took an order, and a poll after
\* the window closed has logged it out
C21_Witness ==
    /\ isInitialized
    /\ ~isLoggedIn
    /\ nextOrderId > 1
    /\ ~isWithinTradingHours(now)
    /\ lastResult.op = "checkAndUpdateSession"

\* C22: isTradingActive() is true exactly when the session is logged in and
\* the current time is within the trading window; it is false for the three
\* other combinations of the two flags.
C22_TradingActive ==
    \A loggedIn \in BOOLEAN :
        /\ isTradingActive(loggedIn, now)
               <=> (loggedIn /\ isWithinTradingHours(now))
        /\ isTradingActive(loggedIn, now)
               = (<<loggedIn, isWithinTradingHours(now)>> = <<TRUE, TRUE>>)

\* logged in with the window closed: not active now, active a minute ago;
\* logged out, it would be active at neither time
C22_Witness ==
    /\ isLoggedIn
    /\ ~isWithinTradingHours(now)
    /\ ~isTradingActive(isLoggedIn, now)
    /\ isTradingActive(isLoggedIn, now - MILLISECONDS_PER_MINUTE)
    /\ ~isTradingActive(FALSE, now)
    /\ ~isTradingActive(FALSE, now - MILLISECONDS_PER_MINUTE)

(***************************************************************************)
(* Window runs: a window is configured, then the clock goes minute by      *)
(* minute through the days that follow.  The host and the trading          *)
(* timezone are UTC.                                                       *)
(***************************************************************************)
MaxWindowDays == 2     \* days the clock of a window run goes through

MINUTES_PER_DAY == HOURS_PER_DAY * MINUTES_PER_HOUR

\* the start and end times a window is configured with
WindowTimes ==
    {[hour |-> 0, minute |-> 0], [hour |-> 6, minute |-> 0],
     [hour |-> 10, minute |-> 0], [hour |-> 15, minute |-> 30],
     [hour |-> 22, minute |-> 0], [hour |-> 23, minute |-> 59]}

\* ConfigManager.loadConfig with another tradingHours
ConfigureWindow ==
    /\ now = InitialNow
    /\ tradingWindow = TradingHours
    /\ \E start \in WindowTimes, end \in WindowTimes :
           tradingWindow' = [start |-> start, end |-> end, timezone |-> "UTC"]
    /\ UNCHANGED <<now, ordersPerSecond, isInitialized, isLoggedIn, orderQueue,
                   orderIndexMap, ordersThisSecond, currentSecond, lastResult,
                   lastCallbacks, handedThisSecond, drained, nextOrderId,
                   nextSeq, roundTrip, burst>>

\* a minute passes
WindowMinute ==
    /\ now < InitialNow + MaxWindowDays * MINUTES_PER_DAY * MILLISECONDS_PER_MINUTE
    /\ now' = now + MILLISECONDS_PER_MINUTE
    /\ handedThisSecond' = 0
    /\ UNCHANGED <<ordersPerSecond, isInitialized, isLoggedIn, orderQueue,
                   orderIndexMap, ordersThisSecond, currentSecond, lastResult,
                   lastCallbacks, drained, nextOrderId, nextSeq, scenario>>

NextWindow ==
    \/ ConfigureWindow
    \/ WindowMinute

SpecWindow == Init /\ [][NextWindow]_vars

\* TimeManager.isWithinTradingHours with the configured window of the run
isWithinTradingWindow(t) ==
    isTimeWithinWindow(getCurrentTimeInTradingTz(t, tradingWindow.timezone),
                       tradingWindow.start, tradingWindow.end)

\* the minute of the day, 0..1439, of an instant
minuteOfDay(t) == (t \div MILLISECONDS_PER_MINUTE) % MINUTES_PER_DAY

\* hh:mm as a TimeOfDay
timeOfDay(hh, mm) == [hour |-> hh, minute |-> mm]

\* C23: with start and end as minutes of the day, a minute t is inside a
\* window with start <= end exactly when start <= t <= end, and inside a
\* window with start > end exactly when t >= start or t <= end; for every
\* minute of the day and every configured window, and for the times the
\* contract names.
C23_WindowMembership ==
    /\ LET t == minuteOfDay(now)
           start == tradingWindow.start.hour * MINUTES_PER_HOUR
                        + tradingWindow.start.minute
           end == tradingWindow.end.hour * MINUTES_PER_HOUR
                      + tradingWindow.end.minute
       IN  isWithinTradingWindow(now)
               <=> IF start <= end
                   THEN start <= t /\ t <= end
                   ELSE t >= start \/ t <= end
    /\ ~isTimeWithinWindow(timeOfDay(9, 59), timeOfDay(10, 0), timeOfDay(15, 30))
    /\ isTimeWithinWindow(timeOfDay(10, 0), timeOfDay(10, 0), timeOfDay(15, 30))
    /\ isTimeWithinWindow(timeOfDay(15, 30), timeOfDay(10, 0), timeOfDay(15, 30))
    /\ ~isTimeWithinWindow(timeOfDay(15, 31), timeOfDay(10, 0), timeOfDay(15, 30))
    /\ isTimeWithinWindow(timeOfDay(23, 0), timeOfDay(22, 0), timeOfDay(6, 0))
    /\ isTimeWithinWindow(timeOfDay(5, 0), timeOfDay(22, 0), timeOfDay(6, 0))
    /\ ~isTimeWithinWindow(timeOfDay(12, 0), timeOfDay(22, 0), timeOfDay(6, 0))

\* the window 22:00-06:00 at 06:00, its last minute, on the second day
C23_Witness ==
    /\ tradingWindow.start = timeOfDay(22, 0)
    /\ tradingWindow.end = timeOfDay(6, 0)
    /\ now = InitialNow + (MINUTES_PER_DAY + 6 * MINUTES_PER_HOUR)
                              * MILLISECONDS_PER_MINUTE
    /\ isWithinTradingWindow(now)
    /\ ~isWithinTradingWindow(now + MILLISECONDS_PER_MINUTE)

(***************************************************************************)
(* The running system with a session timer that keeps firing: setInterval  *)
(* calls checkAndUpdateSession again and again once initialize() has       *)
(* started it.  Nothing is assumed of the order traffic.                   *)
(***************************************************************************)
SpecSessionTimer == Spec /\ WF_vars(SessionPoll /\ UNCHANGED scenario)

\* C24: once the system is initialized, if the time is inside the window the
\* session gets logged in, unless the window closes first, and if the time
\* is outside the window the session gets logged out, unless the window
\* opens first; orders or no orders.
C24_WindowTransitionsObserved ==
    /\ (isInitialized /\ isWithinTradingHours(now))
           ~> (isLoggedIn \/ ~isWithinTradingHours(now))
    /\ (isInitialized /\ ~isWithinTradingHours(now))
           ~> (~isLoggedIn \/ isWithinTradingHours(now))

\* initialized before the window opened, no order ever taken, and the poll
\* has logged the session in
C24_Witness ==
    /\ isInitialized
    /\ isLoggedIn
    /\ isWithinTradingHours(now)
    /\ lastResult.op = "checkAndUpdateSession"
    /\ nextOrderId = 1 /\ nextSeq = 1
    /\ ordersThisSecond = 0
    /\ lastCallbacks = << >>

(***************************************************************************)
(* The observability reads, called between the steps of a round-trip run.  *)
(* observe gives [result, rl, loggedIn]: what the read returns and the     *)
(* fields of the limiter and of the TimeManager after it.                  *)
(***************************************************************************)
\* RateLimiter.getQueuedOrders: a new array with the entries of the queue
getQueuedOrders(rl) == [i \in 1..Len(rl.orderQueue) |-> rl.orderQueue[i]]

Reads == {"getQueueStats", "getQueuedOrders", "isOrderInQueue",
          "getOrderQueuePosition", "getTradingSessionState"}

\* reads of which getQueueStats does the lazy reset of the counter
observe_StatsReset(rl, loggedIn, read, orderId) ==
    [result |->
         CASE read = "getQueueStats" -> getQueueStats(lazyReset(rl))
           [] read = "getQueuedOrders" -> getQueuedOrders(rl)
           [] read = "isOrderInQueue" -> isOrderInQueue(rl, orderId)
           [] read = "getOrderQueuePosition" -> getOrderQueuePosition(rl, orderId)
           [] read = "getTradingSessionState" ->
                  getTradingSessionState(loggedIn, now),
     rl |-> IF read = "getQueueStats" THEN lazyReset(rl) ELSE rl,
     loggedIn |-> loggedIn]

observe(rl, loggedIn, read, orderId) ==
    [result |->
         CASE read = "getQueueStats" -> getQueueStats(rl)
           [] read = "getQueuedOrders" -> getQueuedOrders(rl)
           [] read = "isOrderInQueue" -> isOrderInQueue(rl, orderId)
           [] read = "getOrderQueuePosition" -> getOrderQueuePosition(rl, orderId)
           [] read = "getTradingSessionState" ->
                  getTradingSessionState(loggedIn, now),
     rl |-> rl,
     loggedIn |-> loggedIn]

Observe ==
    \E read \in Reads, orderId \in RoundTripIds :
        LET done == observe(RL, isLoggedIn, read, orderId)
        IN  /\ orderQueue' = done.rl.orderQueue
            /\ orderIndexMap' = done.rl.orderIndexMap
            /\ ordersThisSecond' = done.rl.ordersThisSecond
            /\ currentSecond' = done.rl.currentSecond
            /\ nextSeq' = done.rl.nextSeq
            /\ isLoggedIn' = done.loggedIn
            /\ lastResult' = [op |-> read, outcome |-> "", count |-> orderId,
                              value |-> done.result]
            /\ lastCallbacks' = done.rl.callbacks
            /\ UNCHANGED <<now, ordersPerSecond, isInitialized,
                           handedThisSecond, drained, nextOrderId, scenario>>

NextObserve ==
    \/ NextRoundTrip
    \/ Observe

SpecObserve == Init /\ [][NextObserve]_vars

\* C25: a call of getQueueStats, getQueuedOrders, isOrderInQueue,
\* getOrderQueuePosition or getTradingSessionState leaves the queue, the
\* index, ordersThisSecond, currentSecond and isLoggedIn as they were, and
\* getQueuedOrders returns the entries of the queue in queue order.
\* (A step after which lastResult names a read is the read or a step of the
\* clock that follows it.)
C25_ReadsChangeNothing ==
    [][lastResult'.op \in Reads
           => /\ UNCHANGED <<orderQueue, orderIndexMap, ordersThisSecond,
                             currentSecond, isLoggedIn>>
              /\ lastResult'.op = "getQueuedOrders"
                     => /\ Len(lastResult'.value) = Len(orderQueue)
                        /\ \A i \in 1..Len(orderQueue) :
                               lastResult'.value[i] = orderQueue[i]]_vars

\* the snapshot was taken with two orders waiting, in a second later than
\* the one the counter belongs to
C25_Witness ==
    /\ lastResult.op = "getQueuedOrders"
    /\ Len(lastResult.value) = 2
    /\ lastResult.value[1].seq < lastResult.value[2].seq
    /\ counterIsStale
    /\ ordersThisSecond > 0

(***************************************************************************)
(* The counter of the second                                               *)
(***************************************************************************)
\* C26: the count an admission decision compares with ordersPerSecond, the
\* one canSendImmediately has after its reset, is the number of orders
\* handed over since the clock entered the current second, never one from
\* an earlier second; a decision leaves the bucket at the second it was made
\* in; and as long as fewer than ordersPerSecond orders were handed over in
\* the current second the next admission succeeds, whatever the second
\* before has sent.
C26_LazyReset ==
    /\ lazyReset(RL).ordersThisSecond = handedThisSecond
    /\ lazyReset(RL).currentSecond = now \div MILLISECONDS_PER_SECOND
    /\ canSendImmediately(RL) <=> handedThisSecond < ordersPerSecond
    /\ lastCallbacks # << >>
           => currentSecond = lastCallbacks[1].at \div MILLISECONDS_PER_SECOND
    /\ lastResult.outcome = "queued for rate limiting"
           => currentSecond = orderQueue[Len(orderQueue)].queuedAt
                                  \div MILLISECONDS_PER_SECOND

\* an order had to wait because the second it came in was full; in a later
\* second a drain took it and that second's budget is now used up in turn
C26_Witness ==
    /\ lastResult.op = "processQueue"
    /\ Len(lastCallbacks) >= 1
    /\ lastCallbacks[1].seq > 0
    /\ lastCallbacks[1].at > lastCallbacks[1].order.timestamp + MILLISECONDS_PER_SECOND
    /\ (now % MILLISECONDS_PER_MINUTE) \div MILLISECONDS_PER_SECOND >= 1
    /\ ordersThisSecond = ordersPerSecond
    /\ handedThisSecond = ordersPerSecond
    /\ ~canSendImmediately(RL)

\* the number of New orders in a row that processOrder would send at once,
\* were they submitted now
RECURSIVE immediateCapacity(_)
immediateCapacity(rl) ==
    LET probe == [m_symbolId |-> 1, m_price |-> 1, m_qty |-> 1, m_side |-> "B",
                  m_orderId |-> nextOrderId, requestType |-> New,
                  timestamp |-> now]
    IN  IF processOrder(rl, probe).result
        THEN 1 + immediateCapacity(processOrder(rl, probe).rl)
        ELSE 0

\* C27: at any instant getQueueStats() reports the number of queued entries
\* as queueLength and, as remainingCapacity, a number within 0..rateLimit
\* that is the number of further New orders a submit would forward at once
\* at that instant, also right after a second boundary before any admission
\* check has run.
C27_StatsAccurate ==
    /\ getQueueStats(RL).queueLength = Len(orderQueue)
    /\ getQueueStats(RL).rateLimit = ordersPerSecond
    /\ getQueueStats(RL).remainingCapacity \in 0..ordersPerSecond
    /\ getQueueStats(RL).remainingCapacity = immediateCapacity(RL)

\* C28: one drain takes min(queue length, budget left in the current second)
\* entries, all from the head and in order, calls the callback once for each
\* of them with the order of that entry, and returns with the queue empty or
\* the counter at ordersPerSecond.
C28_DrainCount ==
    LET after == processQueue(RL)
        budget == ordersPerSecond - lazyReset(RL).ordersThisSecond
        taken == min(Len(orderQueue), budget)
    IN  /\ after.orderQueue = SubSeq(orderQueue, taken + 1, Len(orderQueue))
        /\ Len(after.callbacks) = taken
        /\ \A i \in 1..taken :
               /\ after.callbacks[i].seq = orderQueue[i].seq
               /\ sameOrder(after.callbacks[i].order, orderQueue[i])
        /\ after.orderQueue = << >> \/ after.ordersThisSecond = ordersPerSecond
        /\ lastResult.op = "processQueue"
               => orderQueue = << >> \/ ordersThisSecond = ordersPerSecond

\* a drain has taken two entries and left a third: the budget ran out first
C28_Witness ==
    /\ lastResult.op = "processQueue"
    /\ lastResult.count = 2
    /\ Len(lastCallbacks) = 2
    /\ lastCallbacks[1].seq < lastCallbacks[2].seq
    /\ Len(orderQueue) = 1
    /\ ordersThisSecond = ordersPerSecond

(***************************************************************************)
(* The timestamp of a drained order                                        *)
(***************************************************************************)
\* the timestamp a request is submitted with: the one it carries, or the
\* time of the call when it carries none
submittedAt(request) ==
    IF request.timestamp # 0 THEN request.timestamp ELSE now

\* C29: the request a drain rebuilds from a queue entry carries the timestamp
\* the order was submitted with, and the id, symbol, side and kind of the
\* order.  Checked where the entry is made: a New order that onData reports
\* queued, and what createOrderToSend makes of its entry.
C29_OriginalTimestampKept ==
    \A request \in NewRequests :
        LET done == processOrderRequest(RL, request)
            entry == done.rl.orderQueue[Len(done.rl.orderQueue)]
        IN  done.outcome = "queued for rate limiting"
                => /\ createOrderToSend(entry).timestamp = submittedAt(request)
                   /\ createOrderToSend(entry).m_orderId = request.m_orderId
                   /\ createOrderToSend(entry).m_symbolId = request.m_symbolId
                   /\ createOrderToSend(entry).m_side = request.m_side
                   /\ createOrderToSend(entry).requestType = New

(***************************************************************************)
(* TimeManager.getNextTradingEvent.  A Date is its epoch milliseconds;     *)
(* setHours and setDate work on the wall clock of the host.                *)
(***************************************************************************)
MILLISECONDS_PER_DAY == HOURS_PER_DAY * MILLISECONDS_PER_HOUR

\* date.setHours(hours, minutes, 0, 0)
setHours(date, hours, minutes) ==
    date - ((date - HostTimezoneOffset * MILLISECONDS_PER_MINUTE)
                % MILLISECONDS_PER_DAY)
         + hours * MILLISECONDS_PER_HOUR + minutes * MILLISECONDS_PER_MINUTE

\* date.setDate(date.getDate() + 1)
setDateToNextDay(date) == date + MILLISECONDS_PER_DAY

isEndTimeNextDay(start, end) ==
    \/ end.hour < start.hour
    \/ end.hour = start.hour /\ end.minute < start.minute

getTodayTradingTimes(currentTime, config) ==
    LET startTime == config.start
        endTime == config.end
        todayStart == setHours(currentTime, startTime.hour, startTime.minute)
        todayEnd == setHours(currentTime, endTime.hour, endTime.minute)
    IN  [todayStart |-> todayStart,
         todayEnd |-> IF isEndTimeNextDay(startTime, endTime)
                      THEN setDateToNextDay(todayEnd)
                      ELSE todayEnd]

\* a getNextOpenTime that never moves on to the next day
getNextOpenTime_Today(currentTime, todayStart) == todayStart

getNextOpenTime(currentTime, todayStart) ==
    IF currentTime > todayStart
    THEN setDateToNextDay(todayStart)
    ELSE todayStart

createTradingEvent(eventType, timeUntilEvent, eventTime) ==
    [eventType |-> eventType,
     timeUntilEvent |-> timeUntilEvent,
     eventTime |-> eventTime]

\* getNextTradingEvent at instant t under config.tradingHours = config
getNextTradingEvent(t, config) ==
    LET currentTimeInTz == convertToTradingTimezone(t, config.timezone)
        today == getTodayTradingTimes(currentTimeInTz, config)
    IN  IF isTimeWithinWindow(getCurrentTimeInTradingTz(t, config.timezone),
                              config.start, config.end)
        THEN createTradingEvent("close",
                                today.todayEnd - currentTimeInTz,
                                today.todayEnd)
        ELSE LET nextOpen == getNextOpenTime(currentTimeInTz, today.todayStart)
             IN  createTradingEvent("open", nextOpen - currentTimeInTz, nextOpen)

\* C30: the next trading event is "close" exactly when the time is inside the
\* window and "open" otherwise.  A close is at the end time of the current
\* day, a day later when the end time of day is before the start time of
\* day; an open is at the start time of the current day, a day later when
\* that time has passed already.
C30_NextTradingEvent ==
    LET event == getNextTradingEvent(now, tradingWindow)
        midnight == now - (now % MILLISECONDS_PER_DAY)
        start == tradingWindow.start.hour * MINUTES_PER_HOUR
                     + tradingWindow.start.minute
        end == tradingWindow.end.hour * MINUTES_PER_HOUR
                   + tradingWindow.end.minute
        startToday == midnight + start * MILLISECONDS_PER_MINUTE
        endToday == midnight + end * MILLISECONDS_PER_MINUTE
    IN  /\ event.eventType = IF isWithinTradingWindow(now) THEN "close" ELSE "open"
        /\ event.eventType = "close"
               => event.eventTime = IF end < start
                                    THEN endToday + MILLISECONDS_PER_DAY
                                    ELSE endToday
        /\ event.eventType = "open"
               => event.eventTime = IF startToday < now
                                    THEN startToday + MILLISECONDS_PER_DAY
                                    ELSE startToday
        /\ event.timeUntilEvent = event.eventTime - now

\* 15:31 on the second day with the window 10:00-15:30: the next event is
\* the opening at 10:00 of the day after
C30_Witness ==
    /\ tradingWindow.start = timeOfDay(10, 0)
    /\ tradingWindow.end = timeOfDay(15, 30)
    /\ now = InitialNow + MILLISECONDS_PER_DAY
                 + (15 * MINUTES_PER_HOUR + 31) * MILLISECONDS_PER_MINUTE
    /\ getNextTradingEvent(now, tradingWindow).eventType = "open"
    /\ getNextTradingEvent(now, tradingWindow).eventTime =
           InitialNow + 2 * MILLISECONDS_PER_DAY
               + 10 * MINUTES_PER_HOUR * MILLISECONDS_PER_MINUTE
    /\ getNextTradingEvent(now - MILLISECONDS_PER_MINUTE, tradingWindow).eventType
           = "close"

(***************************************************************************)
(* Interleavings of the handlers                                           *)
(***************************************************************************)
\* C31: under every interleaving of the handlers, each run to completion, a
\* queue entry is handed to the callback at most once, and an order whose
\* Cancel found it in the queue is not handed to the callback: the Cancel
\* makes no callback and leaves no entry of that order in the queue for a
\* drain to take.
C31_AtMostOnceAndNotAfterCancel ==
    [][/\ \A i, j \in 1..Len(drained') : drained'[i] = drained'[j] => i = j
       /\ \A request \in CancelRequests :
              (/\ inQueue(orderQueue, request.m_orderId)
               /\ reachesLimiter(request)
               /\ OnData(request))
                  => /\ lastCallbacks' = << >>
                     /\ ~inQueue(orderQueue', request.m_orderId)]_vars

\* C32: the counter of the current second counts the orders passed to the
\* exchange send: a drain tick raises the counter of the second it runs in by
\* the number of orders its callbacks sent, so an order the callback rejects
\* because trading is not active uses no budget.
C32_BudgetCountsSentOrders ==
    LET rl == processQueue(RL)
        sent == {i \in 1..Len(rl.callbacks) : rl.callbacks[i].sent}
    IN  Len(orderQueue) > 0
            => rl.ordersThisSecond
                   = lazyReset(RL).ordersThisSecond + Cardinality(sent)

\* C33: no overtaking: a New order submitted while the queue is not empty is
\* not handed to the callback by its own submission, so it is not forwarded
\* before the orders that were queued when it came in.
C33_NoOvertaking ==
    \A request \in Requests :
        (/\ isNewKind(request)
         /\ reachesLimiter(request)
         /\ Len(orderQueue) > 0)
            => processOrderRequest(RL, request).rl.callbacks = << >>

\* C34: whenever the system is initialized and the current time is inside
\* the trading window, a valid New order given to onData is admitted, sent at
\* once or queued, and is not rejected as trading-inactive; this includes the
\* time between the opening of the window and the next session poll.
C34_AdmittedInsideWindow ==
    \A request \in Requests :
        (/\ isNewKind(request)
         /\ validateOrderRequest(request)
         /\ isInitialized
         /\ isWithinTradingHours(now))
            => processOrderRequest(RL, request).outcome
                   \in {"processed immediately", "queued for rate limiting"}

(***************************************************************************)
(* OrderManagement.shutdown                                                *)
(***************************************************************************)
\* RateLimiter.stop: the drain timer is cleared (TRUE: the timer is set)
stop(queueProcessor) == FALSE

\* OrderManagement.shutdown, called on a system whose two timers are set:
\* the session timer is cleared, the limiter is stopped, sendLogout() runs
\* when trading is active, and isInitialized is dropped
shutdown(loggedIn, t) ==
    [sessionCheckInterval |-> FALSE,
     queueProcessor       |-> stop(TRUE),
     isLoggedIn           |-> IF isTradingActive(loggedIn, t)
                              THEN FALSE
                              ELSE loggedIn,
     logoutSent           |-> isTradingActive(loggedIn, t),
     isInitialized        |-> FALSE]

\* C35: after shutdown() returns, whatever the window state at that moment,
\* the session is logged out, a logout having been sent if it was logged in,
\* both timers are stopped, and onData takes no order any more.
C35_ShutdownLogsOut ==
    isInitialized
        => LET after == shutdown(isLoggedIn, now)
           IN  /\ ~after.isLoggedIn
               /\ after.logoutSent = isLoggedIn
               /\ ~after.sessionCheckInterval
               /\ ~after.queueProcessor
               /\ ~after.isInitialized

\* C36: for every current time and every configured window, same-day or
\* overnight, the next trading event is not in the past and at most 24 hours
\* ahead, and at every minute from now up to the event time the time is
\* inside the window exactly when it is now.
C36_NextEventWithinADay ==
    LET event == getNextTradingEvent(now, tradingWindow)
        minutesAhead == event.timeUntilEvent \div MILLISECONDS_PER_MINUTE
    IN  /\ 0 <= event.timeUntilEvent
        /\ event.timeUntilEvent <= HOURS_PER_DAY * MILLISECONDS_PER_HOUR
        /\ \A k \in 0..(minutesAhead - 1) :
               isWithinTradingWindow(now + k * MILLISECONDS_PER_MINUTE)
                   = isWithinTradingWindow(now)

(***************************************************************************)
(* The host's timezone                                                     *)
(***************************************************************************)
\* Date.getTimezoneOffset() of the hosts looked at, in minutes: a host on
\* India time, on UTC, on New York time
HostTimezoneOffsets == {-330, 0, 300}

\* the timezone identifiers of TIMEZONE_OFFSETS the claim names
TradingTimezones == {"UTC", "Europe/London", "Asia/Kolkata"}

\* isWithinTradingHours at instant t on a host, the window of the run read
\* in the timezone given
isWithinTradingHoursOnHost(t, timezone, hostOffset) ==
    isTimeWithinWindow(getCurrentTimeInTradingTzOnHost(t, timezone, hostOffset),
                       tradingWindow.start, tradingWindow.end)

\* C37: the trading-local hour and minute of an instant depend on the
\* instant and the timezone identifier only: on every host "UTC" and
\* "Europe/London" give the UTC hour and minute, "Asia/Kolkata" gives the hour
\* and minute five and a half hours later, and isWithinTradingHours answers
\* the same on every host.
C37_HostIndependent ==
    \A hostOffset \in HostTimezoneOffsets, timezone \in TradingTimezones :
        LET shift == IF timezone = "Asia/Kolkata" THEN 330 ELSE 0
            local == minuteOfDay(now + shift * MILLISECONDS_PER_MINUTE)
            time == getCurrentTimeInTradingTzOnHost(now, timezone, hostOffset)
        IN  /\ time.hour = local \div MINUTES_PER_HOUR
            /\ time.minute = local % MINUTES_PER_HOUR
            /\ isWithinTradingHoursOnHost(now, timezone, hostOffset)
                   = isWithinTradingHoursOnHost(now, timezone, 0)

(***************************************************************************)
(* The linear-scan RateLimiter                                             *)
(*                                                                         *)
(* The first RateLimiter class of rate-limiter.ts keeps the queue without  *)
(* an index and looks an order up with findIndex.  canSendImmediately,     *)
(* sendOrderNow and the request rebuilt by the drain read the same in both *)
(* classes; lazyReset, canSendImmediately, sendOrderNow and                *)
(* createOrderToSend above serve both.                                     *)
(***************************************************************************)
\* the fields of the linear-scan limiter that holds what limiter rl holds
linearScan(rl) ==
    [orderQueue |-> rl.orderQueue,
     ordersThisSecond |-> rl.ordersThisSecond,
     currentSecond |-> rl.currentSecond,
     nextSeq |-> rl.nextSeq,
     callbacks |-> rl.callbacks]

\* Array.prototype.findIndex on m_orderId, 0-based, -1 when there is none
findIndex(q, orderId) ==
    IF \E i \in 1..Len(q) : q[i].m_orderId = orderId
    THEN (CHOOSE i \in 1..Len(q) :
              /\ q[i].m_orderId = orderId
              /\ \A j \in 1..(i - 1) : q[j].m_orderId # orderId) - 1
    ELSE -1

linear_modifyQueuedOrder(ls, orderId, newPrice, newQty) ==
    LET queuedOrderIndex == findIndex(ls.orderQueue, orderId)
    IN  IF queuedOrderIndex # -1
        THEN [result |-> TRUE,
              rl |-> [ls EXCEPT
                         !.orderQueue[queuedOrderIndex + 1].m_price = newPrice,
                         !.orderQueue[queuedOrderIndex + 1].m_qty = newQty]]
        ELSE [result |-> FALSE, rl |-> ls]

linear_cancelQueuedOrder(ls, orderId) ==
    LET queuedOrderIndex == findIndex(ls.orderQueue, orderId)
    IN  IF queuedOrderIndex # -1
        THEN [result |-> TRUE,
              rl |-> [ls EXCEPT !.orderQueue = splice(@, queuedOrderIndex)]]
        ELSE [result |-> FALSE, rl |-> ls]

linear_handleQueueOperations(ls, request) ==
    CASE request.requestType = Modify ->
            linear_modifyQueuedOrder(ls, request.m_orderId,
                                     request.m_price, request.m_qty)
      [] request.requestType = Cancel ->
            linear_cancelQueuedOrder(ls, request.m_orderId)
      [] OTHER -> [result |-> FALSE, rl |-> ls]

linear_queueOrder(ls, order) ==
    LET queuedOrder ==
            [m_symbolId |-> order.m_symbolId,
             m_price |-> order.m_price,
             m_qty |-> order.m_qty,
             m_side |-> order.m_side,
             m_orderId |-> order.m_orderId,
             requestType |-> order.requestType,
             timestamp |-> order.timestamp,
             queuedAt |-> now,
             originalTimestamp |->
                 IF order.timestamp # 0 THEN order.timestamp ELSE now,
             seq |-> ls.nextSeq]
    IN  [ls EXCEPT !.orderQueue = Append(@, queuedOrder),
                   !.nextSeq = @ + 1]

linear_processOrder(ls, request) ==
    LET requestWithTimestamp ==
            [request EXCEPT
                !.timestamp = now,
                !.requestType = IF @ # Unknown THEN @ ELSE New]
        handled == linear_handleQueueOperations(ls, requestWithTimestamp)
    IN  IF handled.result
        THEN [result |-> TRUE, rl |-> handled.rl]
        ELSE IF canSendImmediately(handled.rl)
             THEN [result |-> TRUE,
                   rl |-> sendOrderNow(lazyReset(handled.rl),
                                       requestWithTimestamp, 0)]
             ELSE [result |-> FALSE,
                   rl |-> linear_queueOrder(lazyReset(handled.rl),
                                            requestWithTimestamp)]

\* while (orderQueue.length > 0 && canSendImmediately()) { shift, send }
RECURSIVE linear_drainLoop(_)
linear_drainLoop(ls) ==
    IF Len(ls.orderQueue) > 0
    THEN IF canSendImmediately(ls)
         THEN LET order == ls.orderQueue[1]
                  shifted == [lazyReset(ls) EXCEPT !.orderQueue = Tail(@)]
              IN  linear_drainLoop(
                      sendOrderNow(shifted, createOrderToSend(order), order.seq))
         ELSE lazyReset(ls)
    ELSE ls

linear_processQueue(ls) ==
    IF Len(ls.orderQueue) = 0 THEN ls ELSE linear_drainLoop(ls)

linear_clearQueue(ls) ==
    [result |-> Len(ls.orderQueue), rl |-> [ls EXCEPT !.orderQueue = << >>]]

linear_isOrderInQueue(ls, orderId) ==
    \E i \in 1..Len(ls.orderQueue) : ls.orderQueue[i].m_orderId = orderId

linear_getOrderQueuePosition(ls, orderId) == findIndex(ls.orderQueue, orderId)

\* the request processOrderRequest hands to processOrder
timestamped(request) ==
    [request EXCEPT !.timestamp = IF @ # 0 THEN @ ELSE now,
                    !.requestType = IF @ # Unknown THEN @ ELSE New]

\* C38: the index-map RateLimiter refines the linear-scan RateLimiter.  From
\* every state the two have reached side by side, holding the same queue and
\* counter, each next call (processOrder of a New, Modify or Cancel, a drain
\* tick, clearQueue) returns the same result, leaves the same queue in the
\* same order and the same counter, and invokes the callback with the same
\* orders in the same sequence; and isOrderInQueue and getOrderQueuePosition
\* answer the same.
C38_IndexMapRefinesLinearScan ==
    /\ \A request \in Requests :
           validateOrderRequest(request)
               => /\ processOrder(RL, timestamped(request)).result
                         = linear_processOrder(linearScan(RL),
                                               timestamped(request)).result
                  /\ linearScan(processOrder(RL, timestamped(request)).rl)
                         = linear_processOrder(linearScan(RL),
                                               timestamped(request)).rl
    /\ linearScan(processQueue(RL)) = linear_processQueue(linearScan(RL))
    /\ clearQueue(RL).result = linear_clearQueue(linearScan(RL)).result
    /\ linearScan(clearQueue(RL).rl) = linear_clearQueue(linearScan(RL)).rl
    /\ \A orderId \in 1..MaxOrderId :
           /\ isOrderInQueue(RL, orderId)
                  = linear_isOrderInQueue(linearScan(RL), orderId)
           /\ getOrderQueuePosition(RL, orderId)
                  = linear_getOrderQueuePosition(linearScan(RL), orderId)

====
